---------------------------- MODULE Spec2Model ----------------------------
(***************************************************************************)
(* cbThreadPool (src/sdk/cbthreadpool.cpp): a fixed-size pool of           *)
(* PrivateThread workers that take cbTaskElement entries from m_TaskQueue, *)
(* run the task's Execute() and report to the owner with two events.       *)
(*                                                                         *)
(* Threads of the model:                                                   *)
(*   - the PrivateThread objects 1..MaxThreadObjs, each running Entry();   *)
(*   - Sub, an owner thread that calls AddTask, BatchBegin and BatchEnd;   *)
(*   - Ctl, an owner thread that calls AbortAllTasks and                   *)
(*     SetConcurrentThreads (and, in SpecTeardown, destroys the pool).     *)
(* Every access of a worker to shared memory is a step of its own, and a   *)
(* worker's critical section is two steps (Enter, then body and Leave), so *)
(* that a worker can be seen, and killed, while it holds a lock.  An owner *)
(* thread is never killed, so a critical section of an owner thread that   *)
(* only touches what the lock protects (AddTask's append, ClearTaskQueue,  *)
(* PrivateThread::Abort) is one step, enabled when the lock is free;       *)
(* RunThreads, which reads unprotected state while it holds the queue      *)
(* lock, is one step per loop iteration.  Reads of an owner thread's own   *)
(* data (m_Batching for Sub, m_Threads' length for Ctl) are part of the    *)
(* neighbouring step.                                                      *)
(* The pool API is called by owner threads only, never from inside a       *)
(* task's Execute(), so wxThread::This() is never one of the pool's        *)
(* workers.  BatchEnd is called after BatchBegin.  SetConcurrentThreads is *)
(* documented as needing external synchronisation with submissions, so Ctl *)
(* starts it only while Sub is outside the API, and Sub waits until it     *)
(* returns.                                                                *)
(*                                                                         *)
(* wxThread (not part of the repository): Create() leaves the thread in    *)
(* state "new"; Run() starts Entry(); IsRunning() holds from Run() until   *)
(* Entry() returns or the thread is killed; Kill() stops the thread where  *)
(* it is, whatever it holds.  Run() on a thread whose Entry() has returned *)
(* is refused by wxWidgets, while RunThreads is written as if it started   *)
(* the thread again: the model allows both outcomes.  TestDestroy() is     *)
(* true only after wxThread::Delete(), which the pool never calls.         *)
(***************************************************************************)
EXTENDS Integers, Sequences, FiniteSets, TLC

\* ------------------------------------------------------------------ bounds
\* Number of PrivateThread objects that can ever be allocated.
MaxThreadObjs == 3
\* Number of AddTask calls.
MaxTasks == 2
\* Largest worker count a pool is configured with.
MaxConcurrency == 2

\* --------------------------------------------------------- program values
\* m_pTask(0), elem.task = 0: no task.
NoTask == 0
\* if(++count > 10): retries before FreeThreads kills a worker.
MaxAbortRetries == 10
\* concurrentThreads == -1 means "as many as CPUs".
AutoConcurrency == -1

ThreadObjs == 1..MaxThreadObjs
Tasks == 1..MaxTasks
\* The two owner threads, as lock owners next to the workers 1..MaxThreadObjs.
Sub == MaxThreadObjs + 1
Ctl == MaxThreadObjs + 2

VARIABLES
    \* cbThreadPool
    m_TaskQueue,              \* cbTaskList: sequence of cbTaskElement
    m_Done, m_Batching, m_Aborting,
    m_Counter,                \* number of busy workers
    m_ConcurrentThreads,
    m_Threads,                \* array of PrivateThread*
    m_CriticalSection,        \* owner of the queue lock, 0 when free
    m_CounterCriticalSection, \* owner of the counter lock, 0 when free
    \* PrivateThread, per object
    wpc,                      \* wxThread state and position in Entry()
    m_pTask, m_Abort,
    elem,                     \* Entry()'s local cbTaskElement
    \* owner threads
    spc, sTask, ri,           \* Sub: position, task being added, RunThreads' i
    cpc, cop, cret, fi, count,\* Ctl: position, API call, FreeThreads' caller, i, count
    oldThreads,               \* Ctl: m_Threads as the API call in progress found it
    \* the tasks and what happened to them; the owner's event queue
    task, deqLog, events, allDoneSinceAdd

vars == << m_TaskQueue, m_Done, m_Batching, m_Aborting, m_Counter,
           m_ConcurrentThreads, m_Threads, m_CriticalSection,
           m_CounterCriticalSection, wpc, m_pTask, m_Abort, elem,
           spc, sTask, ri, cpc, cop, cret, fi, count, oldThreads,
           task, deqLog, events, allDoneSinceAdd >>

poolVars == << m_TaskQueue, m_Done, m_Batching, m_Aborting, m_Counter,
               m_ConcurrentThreads, m_Threads >>
lockVars == << m_CriticalSection, m_CounterCriticalSection >>
subVars == << spc, sTask, ri >>
ctlVars == << cpc, cop, cret, fi, count, oldThreads >>

\* cbTaskElement(task, autoDelete)
cbTaskElement(t, a) == [task |-> t, autoDelete |-> a]
NoElement == cbTaskElement(NoTask, FALSE)

\* A task nobody has submitted yet.
FreshTask == [submitted |-> "no", autoDelete |-> FALSE, executed |-> 0,
              returned |-> 0, aborted |-> FALSE, destroyed |-> 0,
              discarded |-> FALSE]

\* wxThread::IsRunning()
IsRunning(w) == wpc[w] \notin {"unalloc", "new", "exited", "killed"}

\* Mutant: the abort flag is not looked at.
Aborted_Never(w) == FALSE
\* PrivateThread::Aborted(): m_Abort, or TestDestroy() (never true here).
Aborted(w) == m_Abort[w]

\* delete task
Destroy(tk, t) == [tk EXCEPT ![t].destroyed = @ + 1]

\* State after cbThreadPool(owner, id, c0): SetConcurrentThreads(c0) has
\* allocated c0 threads, created and not yet run.
Init ==
    \E c0 \in 1..MaxConcurrency :
        /\ m_TaskQueue = << >>
        /\ m_Done = TRUE
        /\ m_Batching = FALSE
        /\ m_Aborting = FALSE
        /\ m_Counter = 0
        /\ m_ConcurrentThreads = c0
        /\ m_Threads = [i \in 1..c0 |-> i]
        /\ m_CriticalSection = 0
        /\ m_CounterCriticalSection = 0
        /\ wpc = [w \in ThreadObjs |-> IF w <= c0 THEN "new" ELSE "unalloc"]
        /\ m_pTask = [w \in ThreadObjs |-> NoTask]
        /\ m_Abort = [w \in ThreadObjs |-> FALSE]
        /\ elem = [w \in ThreadObjs |-> NoElement]
        /\ spc = "idle" /\ sTask = NoTask /\ ri = 0
        /\ cpc = "idle" /\ cop = "none" /\ cret = "none" /\ fi = 0 /\ count = 0
        /\ oldThreads = << >>
        /\ task = [t \in Tasks |-> FreshTask]
        /\ deqLog = << >>
        /\ events = << >>
        /\ allDoneSinceAdd = 0


\* ------------------------------------------------- PrivateThread::Entry()
\* wxCriticalSection::Enter()/Leave()
Held(cs, who) == cs = who
IsFree(cs) == cs = 0
\* Mutant: the lock is not released.
Leave_Missing(cs) == cs
\* Line 246: m_CriticalSection.Leave() at the end of GetNextElement.
Leave(cs) == 0

\* Where Entry() is after m_CriticalSection.Enter() (GetNextElement, line 235;
\* OnThreadTaskDone, line 156).
AfterEnterCS(pc) == IF pc = "L76" THEN "L236" ELSE "L159"
\* Where Entry() is after m_CounterCriticalSection.Enter() (lines 61, 80, 90, 165).
AfterEnterCounterCS(pc) ==
    CASE pc = "L61" -> "L62"
      [] pc = "L80" -> "L81"
      [] pc = "L90" -> "L91"
      [] OTHER -> "L166"

\* Line 59, while(!Aborted()): the loop test at the top of each iteration.
LoopTest(w) ==
    /\ wpc[w] = "L59"
    /\ wpc' = [wpc EXCEPT ![w] = IF Aborted(w) THEN "L103" ELSE "L61"]
    /\ UNCHANGED << poolVars, lockVars, m_pTask, m_Abort, elem, subVars,
                    ctlVars, task, deqLog, events, allDoneSinceAdd >>

\* A worker blocks in m_CounterCriticalSection.Enter() until the lock is free.
WorkerEnterCounterCS(w) ==
    /\ wpc[w] \in {"L61", "L80", "L90", "L165"}
    /\ IsFree(m_CounterCriticalSection)
    /\ m_CounterCriticalSection' = w
    /\ wpc' = [wpc EXCEPT ![w] = AfterEnterCounterCS(wpc[w])]
    /\ UNCHANGED << poolVars, m_CriticalSection, m_pTask, m_Abort, elem,
                    subVars, ctlVars, task, deqLog, events, allDoneSinceAdd >>

\* A worker blocks in m_CriticalSection.Enter() until the lock is free.
WorkerEnterCS(w) ==
    /\ wpc[w] \in {"L76", "L156"}
    /\ IsFree(m_CriticalSection)
    /\ m_CriticalSection' = w
    /\ wpc' = [wpc EXCEPT ![w] = AfterEnterCS(wpc[w])]
    /\ UNCHANGED << poolVars, m_CounterCriticalSection, m_pTask, m_Abort, elem,
                    subVars, ctlVars, task, deqLog, events, allDoneSinceAdd >>

\* Lines 62-63: m_pTask = 0 under the counter lock.
ClearTaskRef(w) ==
    /\ wpc[w] = "L62"
    /\ Held(m_CounterCriticalSection, w)
    /\ m_pTask' = [m_pTask EXCEPT ![w] = NoTask]
    /\ m_CounterCriticalSection' = 0
    /\ wpc' = [wpc EXCEPT ![w] = "L64"]
    /\ UNCHANGED << poolVars, m_CriticalSection, m_Abort, elem, subVars,
                    ctlVars, task, deqLog, events, allDoneSinceAdd >>

\* Lines 64-69: the two Aborted() tests before the dequeue.  Nothing happens
\* between the two reads, so they are one read of m_Abort.
AbortTest(w) ==
    /\ wpc[w] = "L64"
    /\ wpc' = [wpc EXCEPT ![w] = IF Aborted(w) THEN "L103" ELSE "L76"]
    /\ UNCHANGED << poolVars, lockVars, m_pTask, m_Abort, elem, subVars,
                    ctlVars, task, deqLog, events, allDoneSinceAdd >>

\* cbThreadPool::GetNextElement, lines 236-244: the head entry, or no task.
NextElement(q) == IF q = << >> THEN NoElement ELSE Head(q)
\* Mutant: the node is left in the list.
DeleteNode_Kept(q) == q
\* m_TaskQueue.DeleteNode(node)
DeleteNode(q) == IF q = << >> THEN q ELSE Tail(q)

\* Lines 236-246 and 77-78: GetNextElement under the queue lock, then
\* if (!elem.task) break.
GetNextElement(w) ==
    /\ wpc[w] = "L236"
    /\ Held(m_CriticalSection, w)
    /\ elem' = [elem EXCEPT ![w] = NextElement(m_TaskQueue)]
    /\ m_TaskQueue' = DeleteNode(m_TaskQueue)
    /\ m_CriticalSection' = Leave(m_CriticalSection)
    /\ deqLog' = IF elem'[w].task = NoTask THEN deqLog
                 ELSE Append(deqLog, elem'[w].task)
    /\ wpc' = [wpc EXCEPT ![w] = IF elem'[w].task = NoTask THEN "L103" ELSE "L80"]
    /\ UNCHANGED << m_Done, m_Batching, m_Aborting, m_Counter,
                    m_ConcurrentThreads, m_Threads, m_CounterCriticalSection,
                    m_pTask, m_Abort, subVars, ctlVars, task, events,
                    allDoneSinceAdd >>

\* Lines 81-83: ++m_Counter; m_pTask = elem.task, under the counter lock.
BecomeBusy(w) ==
    /\ wpc[w] = "L81"
    /\ Held(m_CounterCriticalSection, w)
    /\ m_Counter' = m_Counter + 1
    /\ m_pTask' = [m_pTask EXCEPT ![w] = elem[w].task]
    /\ m_CounterCriticalSection' = 0
    /\ wpc' = [wpc EXCEPT ![w] = "L85"]
    /\ UNCHANGED << m_TaskQueue, m_Done, m_Batching, m_Aborting,
                    m_ConcurrentThreads, m_Threads, m_CriticalSection, m_Abort,
                    elem, subVars, ctlVars, task, deqLog, events,
                    allDoneSinceAdd >>

\* Line 85: whether Execute() is entered.
EntersExecute(w) == ~Aborted(w)

\* Lines 85-86: if (!Aborted()) m_pTask->Execute();  Execute() begins.
ExecuteBegin(w) ==
    /\ wpc[w] = "L85"
    /\ IF EntersExecute(w)
       THEN /\ task' = [task EXCEPT ![m_pTask[w]].executed = @ + 1]
            /\ wpc' = [wpc EXCEPT ![w] = "L86"]
       ELSE /\ task' = task
            /\ wpc' = [wpc EXCEPT ![w] = "L90"]
    /\ UNCHANGED << poolVars, lockVars, m_pTask, m_Abort, elem, subVars,
                    ctlVars, deqLog, events, allDoneSinceAdd >>

\* Line 86: Execute() returns.
ExecuteReturn(w) ==
    /\ wpc[w] = "L86"
    /\ task' = [task EXCEPT ![m_pTask[w]].returned = @ + 1]
    /\ wpc' = [wpc EXCEPT ![w] = "L90"]
    /\ UNCHANGED << poolVars, lockVars, m_pTask, m_Abort, elem, subVars,
                    ctlVars, deqLog, events, allDoneSinceAdd >>

\* Mutant: the reference to the finished task is kept.
ClearedTaskRef_Kept(w) == m_pTask[w]
\* Line 91: m_pTask = 0
ClearedTaskRef(w) == NoTask

\* Lines 91-93: m_pTask = 0; --m_Counter, under the counter lock.
BecomeIdle(w) ==
    /\ wpc[w] = "L91"
    /\ Held(m_CounterCriticalSection, w)
    /\ m_pTask' = [m_pTask EXCEPT ![w] = ClearedTaskRef(w)]
    /\ m_Counter' = m_Counter - 1
    /\ m_CounterCriticalSection' = 0
    /\ wpc' = [wpc EXCEPT ![w] = "L94"]
    /\ UNCHANGED << m_TaskQueue, m_Done, m_Batching, m_Aborting,
                    m_ConcurrentThreads, m_Threads, m_CriticalSection, m_Abort,
                    elem, subVars, ctlVars, task, deqLog, events,
                    allDoneSinceAdd >>

\* Lines 94-95: if (elem.autoDelete) delete elem.task;
DeleteTask(w) ==
    /\ wpc[w] = "L94"
    /\ task' = IF elem[w].autoDelete THEN Destroy(task, elem[w].task) ELSE task
    /\ wpc' = [wpc EXCEPT ![w] = "L156"]
    /\ UNCHANGED << poolVars, lockVars, m_pTask, m_Abort, elem, subVars,
                    ctlVars, deqLog, events, allDoneSinceAdd >>

\* Mutant: the queue is taken to be empty.
IsEmpty_Always(q) == TRUE
\* Line 162: m_TaskQueue.IsEmpty()
IsEmpty(q) == q = << >>

\* cbThreadPool::OnThreadTaskDone, lines 159-162 (doneWork is always true at
\* line 97): post cbEVT_THREADTASK_ENDED, then test m_TaskQueue.IsEmpty().
\* The iteration's local elem ends with the iteration.
PostTaskEnded(w) ==
    /\ wpc[w] = "L159"
    /\ Held(m_CriticalSection, w)
    /\ events' = Append(events, "ENDED")
    /\ IF IsEmpty(m_TaskQueue)
       THEN /\ wpc' = [wpc EXCEPT ![w] = "L165"]
            /\ UNCHANGED << m_CriticalSection, elem >>
       ELSE /\ wpc' = [wpc EXCEPT ![w] = "L59"]
            /\ m_CriticalSection' = 0
            /\ elem' = [elem EXCEPT ![w] = NoElement]
    /\ UNCHANGED << poolVars, m_CounterCriticalSection, m_pTask, m_Abort,
                    subVars, ctlVars, task, deqLog, allDoneSinceAdd >>

\* Mutant: the busy counter is not consulted.
ReallyDone_Always(counter) == TRUE
\* Line 166: bool reallyDone = m_Counter == 0;
ReallyDone(counter) == counter = 0

\* Lines 166-178: read m_Counter under the counter lock; if no worker is busy
\* set m_Done and post cbEVT_THREADTASK_ALLDONE; leave both locks.
CheckAllDone(w) ==
    /\ wpc[w] = "L166"
    /\ Held(m_CounterCriticalSection, w)
    /\ Held(m_CriticalSection, w)
    /\ IF ReallyDone(m_Counter)
       THEN /\ m_Done' = TRUE
            /\ events' = Append(events, "ALLDONE")
            /\ allDoneSinceAdd' = allDoneSinceAdd + 1
       ELSE UNCHANGED << m_Done, events, allDoneSinceAdd >>
    /\ m_CounterCriticalSection' = 0
    /\ m_CriticalSection' = 0
    /\ elem' = [elem EXCEPT ![w] = NoElement]
    /\ wpc' = [wpc EXCEPT ![w] = "L59"]
    /\ UNCHANGED << m_TaskQueue, m_Batching, m_Aborting, m_Counter,
                    m_ConcurrentThreads, m_Threads, m_pTask, m_Abort,
                    subVars, ctlVars, task, deqLog >>

\* Line 103: return 0.  Entry() returns and the thread stops running.
EntryReturn(w) ==
    /\ wpc[w] = "L103"
    /\ wpc' = [wpc EXCEPT ![w] = "exited"]
    /\ UNCHANGED << poolVars, lockVars, m_pTask, m_Abort, elem, subVars,
                    ctlVars, task, deqLog, events, allDoneSinceAdd >>

\* One step of a worker's Entry().
Worker(w) ==
    \/ LoopTest(w)
    \/ WorkerEnterCounterCS(w)
    \/ WorkerEnterCS(w)
    \/ ClearTaskRef(w)
    \/ AbortTest(w)
    \/ GetNextElement(w)
    \/ BecomeBusy(w)
    \/ ExecuteBegin(w)
    \/ ExecuteReturn(w)
    \/ BecomeIdle(w)
    \/ DeleteTask(w)
    \/ PostTaskEnded(w)
    \/ CheckAllDone(w)
    \/ EntryReturn(w)

\* ------------------------------------------------ Sub: AddTask, batching
\* The next task the owner submits: tasks are numbered in submission order.
Unsubmitted == {t \in Tasks : task[t].submitted = "no"}
NextTask == CHOOSE t \in Unsubmitted : \A u \in Unsubmitted : t <= u

\* Mutant: the element is inserted at the head of the list.
AppendElement_AtHead(q, e) == << e >> \o q
\* Mutant: the element is not put in the list.
AppendElement_Dropped(q, e) == q
\* Line 218: m_TaskQueue.Append(elem)
AppendElement(q, e) == Append(q, e)

\* Line 208: if(m_Aborting) the submission is refused.
Refused == m_Aborting

\* AddTask, lines 208-215: if(m_Aborting) the task is refused (and deleted when
\* autoDelete); otherwise the element is built and the call goes on.
AddTaskBegin(a) ==
    /\ spc = "idle"
    /\ cop \notin {"setconc", "dtor"}
    /\ Unsubmitted # {}
    /\ IF Refused
       THEN /\ task' = [task EXCEPT ![NextTask] =
                           [@ EXCEPT !.submitted = "rejected",
                                     !.autoDelete = a,
                                     !.destroyed = IF a THEN 1 ELSE 0]]
            /\ UNCHANGED << spc, sTask >>
       ELSE /\ task' = [task EXCEPT ![NextTask] =
                           [@ EXCEPT !.submitted = "pending", !.autoDelete = a]]
            /\ sTask' = NextTask
            /\ spc' = "L217"
    /\ UNCHANGED << poolVars, lockVars, wpc, m_pTask, m_Abort, elem, ri,
                    ctlVars, deqLog, events, allDoneSinceAdd >>

\* AddTask, lines 217-228: under the queue lock append the element and clear
\* m_Done; then RunThreads() unless batching; return true.
AddTaskAppend ==
    /\ spc = "L217"
    /\ IsFree(m_CriticalSection)
    /\ m_TaskQueue' = AppendElement(m_TaskQueue,
                                    cbTaskElement(sTask, task[sTask].autoDelete))
    /\ m_Done' = FALSE
    /\ task' = [task EXCEPT ![sTask].submitted = "accepted"]
    /\ allDoneSinceAdd' = 0
    /\ spc' = IF m_Batching THEN "idle" ELSE "L195"
    /\ sTask' = NoTask
    /\ UNCHANGED << m_Batching, m_Aborting, m_Counter, m_ConcurrentThreads,
                    m_Threads, lockVars, wpc, m_pTask, m_Abort, elem, ri,
                    ctlVars, deqLog, events >>

\* RunThreads, line 195: Sub blocks in m_CriticalSection.Enter().
RunThreadsEnter ==
    /\ spc = "L195"
    /\ IsFree(m_CriticalSection)
    /\ m_CriticalSection' = Sub
    /\ spc' = "L197"
    /\ ri' = 1
    /\ UNCHANGED << poolVars, m_CounterCriticalSection, wpc, m_pTask, m_Abort,
                    elem, sTask, ctlVars, task, deqLog, events, allDoneSinceAdd >>

\* wxThread::Run(): a created thread starts Entry(); for a thread whose Entry()
\* has returned, the call either starts Entry() again or is refused.
\* (mayRefuse = FALSE: the call always starts the thread, as RunThreads assumes.)
RunOutcomes(w, mayRefuse) ==
    IF wpc[w] = "new" \/ ~mayRefuse THEN {TRUE} ELSE {TRUE, FALSE}

\* RunThreads, line 200: which threads are started.
ShouldRun(w) == ~m_Aborting /\ ~IsRunning(w)

\* RunThreads, lines 197-203: one iteration of the loop over m_Threads, or the
\* end of the loop and Leave().
RunThreadsStep(mayRefuse) ==
    /\ spc = "L197"
    /\ Held(m_CriticalSection, Sub)
    /\ IF ri <= Len(m_Threads)
       THEN /\ ri' = ri + 1
            /\ \E started \in (IF ShouldRun(m_Threads[ri])
                               THEN RunOutcomes(m_Threads[ri], mayRefuse)
                               ELSE {FALSE}) :
                   wpc' = IF started THEN [wpc EXCEPT ![m_Threads[ri]] = "L59"]
                          ELSE wpc
            /\ UNCHANGED << spc, m_CriticalSection >>
       ELSE /\ ri' = 0
            /\ spc' = "idle"
            /\ m_CriticalSection' = 0
            /\ wpc' = wpc
    /\ UNCHANGED << poolVars, m_CounterCriticalSection, m_pTask, m_Abort, elem,
                    sTask, ctlVars, task, deqLog, events, allDoneSinceAdd >>

\* BatchBegin, line 183.
BatchBegin ==
    /\ spc = "idle"
    /\ cop \notin {"setconc", "dtor"}
    /\ ~m_Batching
    /\ m_Batching' = TRUE
    /\ UNCHANGED << m_TaskQueue, m_Done, m_Aborting, m_Counter,
                    m_ConcurrentThreads, m_Threads, lockVars, wpc, m_pTask,
                    m_Abort, elem, subVars, ctlVars, task, deqLog, events,
                    allDoneSinceAdd >>

\* BatchEnd, lines 188-190: m_Batching = false; RunThreads().
BatchEnd ==
    /\ spc = "idle"
    /\ cop \notin {"setconc", "dtor"}
    /\ m_Batching
    /\ m_Batching' = FALSE
    /\ spc' = "L195"
    /\ UNCHANGED << m_TaskQueue, m_Done, m_Aborting, m_Counter,
                    m_ConcurrentThreads, m_Threads, lockVars, wpc, m_pTask,
                    m_Abort, elem, sTask, ri, ctlVars, task, deqLog, events,
                    allDoneSinceAdd >>

Submitter ==
    \/ \E a \in BOOLEAN : AddTaskBegin(a)
    \/ AddTaskAppend
    \/ RunThreadsEnter
    \/ RunThreadsStep(TRUE)
    \/ BatchBegin
    \/ BatchEnd

\* ------------------------------ Ctl: AbortAllTasks, SetConcurrentThreads
Unallocated == {w \in ThreadObjs : wpc[w] = "unalloc"}
\* The thread object the next "new PrivateThread(this)" yields.
NewThread == CHOOSE w \in Unallocated : \A u \in Unallocated : w <= u

\* AbortAllTasks, line 251: m_Aborting = true.  (Only as long as thread
\* objects remain to allocate the new worker set from.)
AbortAllTasksBegin ==
    /\ cpc = "idle"
    /\ Cardinality(Unallocated) >= m_ConcurrentThreads
    /\ m_Aborting' = TRUE
    /\ cop' = "abort"
    /\ cpc' = "L252"
    /\ oldThreads' = m_Threads
    /\ UNCHANGED << m_TaskQueue, m_Done, m_Batching, m_Counter,
                    m_ConcurrentThreads, m_Threads, lockVars, wpc, m_pTask,
                    m_Abort, elem, subVars, cret, fi, count, task, deqLog,
                    events, allDoneSinceAdd >>

\* ClearTaskQueue, lines 262-267: every pending entry is discarded, and its
\* task deleted when the entry is autoDelete.
DiscardAll(tk, q) ==
    [t \in Tasks |->
        IF \E i \in 1..Len(q) : q[i].task = t
        THEN LET e == q[CHOOSE i \in 1..Len(q) : q[i].task = t]
             IN  [tk[t] EXCEPT !.discarded = TRUE,
                               !.destroyed = IF e.autoDelete THEN @ + 1 ELSE @]
        ELSE tk[t]]
\* Mutant: the list is not cleared.
ClearedQueue_Kept(q) == q
\* Line 268: m_TaskQueue.Clear()
ClearedQueue(q) == << >>

\* ClearTaskQueue, lines 261-269, under the queue lock; then FreeThreads is
\* entered (line 253 of AbortAllTasks, line 132 of the destructor).
ClearTaskQueue ==
    /\ cpc \in {"L252", "L131"}
    /\ IsFree(m_CriticalSection)
    /\ task' = DiscardAll(task, m_TaskQueue)
    /\ m_TaskQueue' = ClearedQueue(m_TaskQueue)
    /\ cpc' = "L288"
    /\ cret' = IF cpc = "L252" THEN "L254" ELSE "L133"
    /\ fi' = 1
    /\ UNCHANGED << m_Done, m_Batching, m_Aborting, m_Counter,
                    m_ConcurrentThreads, m_Threads, lockVars, wpc, m_pTask,
                    m_Abort, elem, subVars, cop, count, oldThreads, deqLog, events,
                    allDoneSinceAdd >>

\* Mutant: the abort is not forwarded to the task.
ForwardAbort_Dropped(tk, w) == tk
\* PrivateThread::Abort(), lines 50-51: if(m_pTask) m_pTask->Abort();
ForwardAbort(tk, w) ==
    IF m_pTask[w] # NoTask THEN [tk EXCEPT ![m_pTask[w]].aborted = TRUE] ELSE tk

\* PrivateThread::Abort(), lines 49-53, on thread w: under the counter lock,
\* forward the abort to the task in flight and set m_Abort.
Abort(w) ==
    /\ IsFree(m_CounterCriticalSection)
    /\ task' = ForwardAbort(task, w)
    /\ m_Abort' = [m_Abort EXCEPT ![w] = TRUE]

\* FreeThreads, lines 288-299: the first loop, thread->Abort() on every
\* thread; after the loop comes the sleep and the second loop.
FreeThreadsSignal ==
    /\ cpc = "L288"
    /\ IF fi <= Len(m_Threads)
       THEN /\ Abort(m_Threads[fi])
            /\ fi' = fi + 1
            /\ cpc' = cpc
       ELSE /\ UNCHANGED << task, m_Abort >>
            /\ fi' = 1
            /\ cpc' = "L302"
    /\ UNCHANGED << poolVars, lockVars, wpc, m_pTask, elem, subVars, cop, cret,
                    count, oldThreads, deqLog, events, allDoneSinceAdd >>

\* FreeThreads, lines 302-309 and 326: the second loop's test; past the last
\* thread, m_Threads.Clear() and return, to AbortAllTasks line 254 (which
\* calls AllocThreads, whose first statement is FreeThreads again), to
\* AllocThreads line 276, or out of the destructor (line 133).
FreeThreadsNext ==
    /\ cpc = "L302"
    /\ IF fi <= Len(m_Threads)
       THEN /\ count' = 0
            /\ cpc' = "L310"
            /\ UNCHANGED << m_Threads, cret, fi >>
       ELSE /\ m_Threads' = << >>
            /\ count' = 0
            /\ CASE cret = "L254" -> cpc' = "L288" /\ cret' = "L276" /\ fi' = 1
                 [] cret = "L133" -> cpc' = "destroyed" /\ cret' = "none" /\ fi' = 0
                 [] OTHER -> cpc' = "L276" /\ cret' = "none" /\ fi' = 0
    /\ UNCHANGED << m_TaskQueue, m_Done, m_Batching, m_Aborting, m_Counter,
                    m_ConcurrentThreads, lockVars, wpc, m_pTask, m_Abort, elem,
                    subVars, cop, oldThreads, task, deqLog, events, allDoneSinceAdd >>

\* Line 318: if(++count > 10), count already incremented.
GiveUp(c) == c > MaxAbortRetries

\* FreeThreads, lines 310-318: while(thread->IsRunning()) { thread->Abort();
\* sleep; if(++count > 10) ... }.  One retry is one step: Abort() on a thread
\* that has stopped in the meantime finds no task and changes nothing.
FreeThreadsWait ==
    /\ cpc = "L310"
    /\ IF IsRunning(m_Threads[fi])
       THEN /\ Abort(m_Threads[fi])
            /\ count' = count + 1
            /\ cpc' = IF GiveUp(count + 1) THEN "L320" ELSE "L310"
            /\ fi' = fi
       ELSE /\ UNCHANGED << task, m_Abort >>
            /\ count' = count
            /\ cpc' = "L302"
            /\ fi' = fi + 1
    /\ UNCHANGED << poolVars, lockVars, wpc, m_pTask, elem, subVars, cop, cret,
                    oldThreads, deqLog, events, allDoneSinceAdd >>

\* Mutant: the thread is not killed.
Kill_Skipped(w) == wpc
\* wxThread::Kill(): the thread stops where it is.
Kill(w) == [wpc EXCEPT ![w] = "killed"]

\* FreeThreads, lines 320-322: if(thread->IsRunning()) thread->Kill(); break.
FreeThreadsKill ==
    /\ cpc = "L320"
    /\ wpc' = IF IsRunning(m_Threads[fi]) THEN Kill(m_Threads[fi]) ELSE wpc
    /\ cpc' = "L302"
    /\ fi' = fi + 1
    /\ UNCHANGED << poolVars, lockVars, m_pTask, m_Abort, elem, subVars, cop,
                    cret, count, oldThreads, task, deqLog, events, allDoneSinceAdd >>

\* AllocThreads, lines 276-281: one iteration (new PrivateThread, Create(),
\* m_Threads.Add), or the end of the loop and the return: to AbortAllTasks
\* line 255, or out of SetConcurrentThreads.
AllocThreadsStep ==
    /\ cpc = "L276"
    /\ IF fi < m_ConcurrentThreads
       THEN /\ wpc' = [wpc EXCEPT ![NewThread] = "new"]
            /\ m_Threads' = Append(m_Threads, NewThread)
            /\ fi' = fi + 1
            /\ UNCHANGED << cpc, cop, oldThreads >>
       ELSE /\ cpc' = IF cop = "abort" THEN "L255" ELSE "idle"
            /\ cop' = IF cop = "abort" THEN cop ELSE "none"
            /\ fi' = 0
            /\ oldThreads' = IF cop = "abort" THEN oldThreads ELSE << >>
            /\ UNCHANGED << wpc, m_Threads >>
    /\ UNCHANGED << m_TaskQueue, m_Done, m_Batching, m_Aborting, m_Counter,
                    m_ConcurrentThreads, lockVars, m_pTask, m_Abort, elem,
                    subVars, cret, count, task, deqLog, events, allDoneSinceAdd >>

\* AbortAllTasks, line 255: m_Aborting = false.
AbortAllTasksEnd ==
    /\ cpc = "L255"
    /\ m_Aborting' = FALSE
    /\ cpc' = "idle"
    /\ cop' = "none"
    /\ oldThreads' = << >>
    /\ UNCHANGED << m_TaskQueue, m_Done, m_Batching, m_Counter,
                    m_ConcurrentThreads, m_Threads, lockVars, wpc, m_pTask,
                    m_Abort, elem, subVars, cret, fi, count, task, deqLog,
                    events, allDoneSinceAdd >>

\* Mutant: no fallback when the CPU count is unknown.
ResolveConcurrency_NoFallback(c, cpus) == IF c = AutoConcurrency THEN cpus ELSE c
\* SetConcurrentThreads, lines 138-145: -1 means wxThread::GetCPUCount(), and
\* when that is -1 too, 1.
ResolveConcurrency(c, cpus) ==
    LET first == IF c = AutoConcurrency THEN cpus ELSE c
    IN  IF first = AutoConcurrency THEN 1 ELSE first

\* SetConcurrentThreads(c) on a machine reporting cpus CPUs, lines 138-150:
\* set m_ConcurrentThreads and enter AllocThreads, that is FreeThreads.
SetConcurrentThreads(c, cpus) ==
    /\ cpc = "idle"
    /\ spc = "idle"
    /\ Cardinality(Unallocated) >= ResolveConcurrency(c, cpus)
    /\ m_ConcurrentThreads' = ResolveConcurrency(c, cpus)
    /\ cop' = "setconc"
    /\ cpc' = "L288"
    /\ cret' = "L276"
    /\ fi' = 1
    /\ oldThreads' = m_Threads
    /\ UNCHANGED << m_TaskQueue, m_Done, m_Batching, m_Aborting, m_Counter,
                    m_Threads, lockVars, wpc, m_pTask, m_Abort, elem, subVars,
                    count, task, deqLog, events, allDoneSinceAdd >>

\* ~cbThreadPool(), line 130: m_Aborting = true; ClearTaskQueue and FreeThreads
\* follow.  The owner destroys the pool when no other call is in progress,
\* and makes no call afterwards.
Destructor ==
    /\ cpc = "idle"
    /\ spc = "idle"
    /\ m_Aborting' = TRUE
    /\ cop' = "dtor"
    /\ cpc' = "L131"
    /\ oldThreads' = m_Threads
    /\ UNCHANGED << m_TaskQueue, m_Done, m_Batching, m_Counter,
                    m_ConcurrentThreads, m_Threads, lockVars, wpc, m_pTask,
                    m_Abort, elem, subVars, cret, fi, count, task, deqLog,
                    events, allDoneSinceAdd >>

\* What the owner passes, and what wxThread::GetCPUCount() may report.
ConcurrencyArgs == {AutoConcurrency} \cup (1..MaxConcurrency)
CPUCounts == {AutoConcurrency} \cup (1..MaxConcurrency)

Controller ==
    \/ AbortAllTasksBegin
    \/ ClearTaskQueue
    \/ FreeThreadsSignal
    \/ FreeThreadsNext
    \/ FreeThreadsWait
    \/ FreeThreadsKill
    \/ AllocThreadsStep
    \/ AbortAllTasksEnd
    \/ \E c \in ConcurrencyArgs, cpus \in CPUCounts : SetConcurrentThreads(c, cpus)

Next ==
    \/ \E w \in ThreadObjs : Worker(w)
    \/ Submitter
    \/ Controller

Spec == Init /\ [][Next]_vars

\* The pool used by an owner that only submits, without batching, abort or
\* reconfiguration, and with a wxThread::Run() that always starts the thread.
NextPlain ==
    \/ \E w \in ThreadObjs : Worker(w)
    \/ \E a \in BOOLEAN : AddTaskBegin(a)
    \/ AddTaskAppend
    \/ RunThreadsEnter
    \/ RunThreadsStep(FALSE)

SpecPlain == Init /\ [][NextPlain]_vars

\* The pool used by an owner that submits only inside batches (BatchBegin,
\* AddTask ..., BatchEnd), without abort or reconfiguration, and with a
\* wxThread::Run() that always starts the thread.
NextBatch ==
    \/ \E w \in ThreadObjs : Worker(w)
    \/ \E a \in BOOLEAN : m_Batching /\ AddTaskBegin(a)
    \/ AddTaskAppend
    \/ RunThreadsEnter
    \/ RunThreadsStep(FALSE)
    \/ BatchBegin
    \/ BatchEnd

SpecBatch == Init /\ [][NextBatch]_vars

\* The pool used by an owner that submits without batching, aborts, and in
\* the end destroys the pool.
NextTeardown ==
    \/ \E w \in ThreadObjs : Worker(w)
    \/ \E a \in BOOLEAN : AddTaskBegin(a)
    \/ AddTaskAppend
    \/ RunThreadsEnter
    \/ RunThreadsStep(TRUE)
    \/ AbortAllTasksBegin
    \/ ClearTaskQueue
    \/ FreeThreadsSignal
    \/ FreeThreadsNext
    \/ FreeThreadsWait
    \/ FreeThreadsKill
    \/ AllocThreadsStep
    \/ AbortAllTasksEnd
    \/ Destructor

SpecTeardown == Init /\ [][NextTeardown]_vars

\* ----------------------------------------------------------------- claims
Accepted(t) == task[t].submitted = "accepted"
\* A worker holds an entry it took from the queue and has not yet finished
\* (or skipped) its Execute().
Unfinished(w) == wpc[w] \in {"L80", "L81", "L85", "L86"}
\* Between ++m_Counter and --m_Counter.
Busy(w) == wpc[w] \in {"L85", "L86", "L90", "L91"}
InExecute(w) == wpc[w] = "L86"
\* No thread can take a step unless the owner makes another call.
Quiescent == spc = "idle" /\ cpc = "idle" /\ \A w \in ThreadObjs : ~IsRunning(w)
PostsAllDone == /\ Len(events') = Len(events) + 1
                /\ events'[Len(events')] = "ALLDONE"

\* C1: when OnThreadTaskDone posts cbEVT_THREADTASK_ALLDONE, the queue is
\* empty and no worker holds a dequeued task whose Execute() it has not
\* finished.
C1_AllDoneOnlyWhenFinished ==
    [][PostsAllDone =>
         /\ m_TaskQueue = << >>
         /\ \A w \in ThreadObjs : ~Unfinished(w)]_vars

\* C2: after tasks were submitted without batching, abort or reconfiguration,
\* once every thread has stopped an "all done" event has been posted since the
\* last submission, and the queue is empty and the busy counter zero.
C2_AllDoneAfterSubmissions ==
    (Quiescent /\ \E t \in Tasks : Accepted(t)) =>
        /\ allDoneSinceAdd >= 1
        /\ m_TaskQueue = << >>
        /\ m_Counter = 0

\* C3: at most one "all done" event is posted after an accepted AddTask until
\* the next accepted AddTask.
C3_OneAllDonePerSubmission == allDoneSinceAdd <= 1

\* C4: every task accepted while the pool is not batching has been executed
\* once every thread has stopped (no abort or reconfiguration).
C4_AcceptedTaskExecuted ==
    Quiescent => \A t \in Tasks : Accepted(t) => task[t].executed >= 1

\* C5: Execute() is invoked at most once per task, and no queue entry is
\* obtained twice or by two workers.
C5_ExecutedAtMostOnce ==
    /\ \A t \in Tasks : task[t].executed <= 1
    /\ \A i, j \in 1..Len(deqLog) : i # j => deqLog[i] # deqLog[j]
    /\ \A w, v \in ThreadObjs :
           (w # v /\ elem[w].task # NoTask) => elem[w].task # elem[v].task
C5_Witness ==
    /\ Len(deqLog) = 2
    /\ \A t \in Tasks : task[t].executed = 1

\* C6: entries are dequeued in submission order: the dequeue log is
\* increasing in submission number, and an accepted task submitted before a
\* dequeued one was dequeued before it, unless a queue clear discarded it.
C6_DequeueInSubmissionOrder ==
    /\ \A i, j \in 1..Len(deqLog) : i < j => deqLog[i] < deqLog[j]
    /\ \A i \in 1..Len(deqLog) : \A t \in Tasks :
           (t < deqLog[i] /\ Accepted(t)) =>
               \/ \E j \in 1..(i - 1) : deqLog[j] = t
               \/ task[t].discarded
C6_Witness == deqLog = << 1, 2 >>

C8_NoEnqueueDuringAbort ==
    [][cop = "abort" => Len(m_TaskQueue') <= Len(m_TaskQueue)]_vars

\* C9: a task that was pending when ClearTaskQueue cleared the queue is never
\* executed, and is destroyed (once) exactly when it is autoDelete.
C9_DiscardedNeverExecuted ==
    \A t \in Tasks : task[t].discarded =>
        /\ task[t].executed = 0
        /\ task[t].destroyed = IF task[t].autoDelete THEN 1 ELSE 0
C9_Witness ==
    \E t, u \in Tasks :
        /\ task[t].discarded /\ task[t].autoDelete
        /\ task[u].executed = 1 /\ ~task[u].discarded

\* C10: a task in Execute() on a worker whose abort flag is set has had
\* Abort() called; once AbortAllTasks has signalled every worker, every task
\* in Execute() has had Abort() called; and a task that became in-flight
\* after its worker's flag was set (flag set, no Abort() on the task) is not
\* executed.
C10_RunningTasksAborted ==
    /\ \A w \in ThreadObjs :
           (InExecute(w) /\ m_Abort[w]) => task[m_pTask[w]].aborted
    /\ (cop = "abort" /\ cret = "L254" /\ cpc \in {"L302", "L310", "L320"}) =>
           \A w \in ThreadObjs : InExecute(w) => task[m_pTask[w]].aborted
    /\ \A w \in ThreadObjs :
           (m_Abort[w] /\ m_pTask[w] # NoTask /\ ~task[m_pTask[w]].aborted) =>
               task[m_pTask[w]].executed = 0
C10_Witness ==
    /\ cop = "abort"
    /\ \E w \in ThreadObjs :
           InExecute(w) /\ m_Abort[w] /\ task[m_pTask[w]].aborted

\* The thread objects of a worker set.
Members(threads) == {threads[i] : i \in 1..Len(threads)}
\* The PrivateThread objects created by "new PrivateThread(this)" (line 278)
\* in thread states pc; the pool has no "delete" of a thread object, so
\* these are also the objects allocated and not released.
Allocated(pc) == {w \in ThreadObjs : pc[w] # "unalloc"}
\* The step with which AbortAllTasks returns (line 255).
AbortAllTasksReturns == cpc = "L255" /\ cpc' = "idle"
\* The step with which SetConcurrentThreads returns (the end of AllocThreads).
SetConcurrentThreadsReturns == cop = "setconc" /\ cop' = "none"

\* C11: when AbortAllTasks returns, m_Threads holds exactly
\* m_ConcurrentThreads workers, each created by this call (not in the set the
\* call found), not running, with no task in flight and a clear abort flag;
\* the queue is empty and m_Aborting is false.
C11_FreshIdleSetAfterAbort ==
    [][AbortAllTasksReturns =>
         /\ Len(m_Threads') = m_ConcurrentThreads'
         /\ Cardinality(Members(m_Threads')) = m_ConcurrentThreads'
         /\ \A w \in Members(m_Threads') :
                /\ w \notin Members(oldThreads)
                /\ wpc'[w] = "new"
                /\ m_pTask'[w] = NoTask
                /\ ~m_Abort'[w]
         /\ m_TaskQueue' = << >>
         /\ ~m_Aborting']_vars

\* C12: when SetConcurrentThreads returns after changing the worker count
\* from N to M # N, m_Threads holds exactly M workers, none running and none
\* with a task in flight, every worker of the previous set has stopped, and
\* the thread objects allocated and not released are M.
C12_NoLeakedWorkers ==
    [][(SetConcurrentThreadsReturns /\ Len(oldThreads) # m_ConcurrentThreads) =>
         /\ Len(m_Threads') = m_ConcurrentThreads'
         /\ \A w \in Members(m_Threads') :
                wpc'[w] = "new" /\ m_pTask'[w] = NoTask
         /\ \A w \in Members(oldThreads) :
                wpc'[w] \in {"new", "exited", "killed"}
         /\ Cardinality(Allocated(wpc')) = m_ConcurrentThreads']_vars

\* A RunThreads call begins (line 195 is reached).
RunThreadsCalled == spc # "L195" /\ spc' = "L195"
\* BatchEnd, line 188: m_Batching = false.
BatchEnds == m_Batching /\ ~m_Batching'

\* C13: an AddTask made while batching returns without calling RunThreads;
\* BatchEnd calls RunThreads once, and nothing else of a batch does; and once
\* the batch has ended and every thread has stopped, the tasks accepted in
\* the batch have been executed.
C13_BatchWakesOnce ==
    /\ [][(spc = "L217" /\ m_Batching) => ~RunThreadsCalled]_vars
    /\ [][RunThreadsCalled <=> BatchEnds]_vars
    /\ [](Quiescent /\ ~m_Batching =>
             \A t \in Tasks : Accepted(t) => task[t].executed >= 1)

\* C14: whenever neither lock is held, m_Done is true exactly when the queue
\* is empty and the busy counter is zero.
C14_DoneIffIdle ==
    (IsFree(m_CriticalSection) /\ IsFree(m_CounterCriticalSection)) =>
        (m_Done <=> (m_TaskQueue = << >> /\ m_Counter = 0))

\* The task has been handed to AddTask.
Submitted(t) == task[t].submitted # "no"

\* C15: a task is destroyed by the pool at most once, never when it was
\* submitted without autoDelete, and never while it is a worker's task in
\* flight; and once every thread has stopped with the queue empty, every task
\* submitted with autoDelete (executed, discarded or rejected) has been
\* destroyed.
C15_AutoDeleteDestroyedOnce ==
    /\ \A t \in Tasks : task[t].destroyed <= 1
    /\ \A t \in Tasks : ~task[t].autoDelete => task[t].destroyed = 0
    /\ \A w \in ThreadObjs :
           m_pTask[w] # NoTask => task[m_pTask[w]].destroyed = 0
    /\ (Quiescent /\ m_TaskQueue = << >>) =>
           \A t \in Tasks :
               (Submitted(t) /\ task[t].autoDelete) => task[t].destroyed = 1

\* C16: whenever the counter lock is free, a worker's m_pTask is non-null
\* exactly when the worker is busy, and m_Counter is the number of workers
\* with a non-null m_pTask; m_Counter is never negative and, outside
\* SetConcurrentThreads, never exceeds the number of workers.
C16_CounterCountsBusyWorkers ==
    /\ IsFree(m_CounterCriticalSection) =>
           /\ \A w \in ThreadObjs : (m_pTask[w] # NoTask) <=> Busy(w)
           /\ m_Counter = Cardinality({w \in ThreadObjs : m_pTask[w] # NoTask})
    /\ m_Counter >= 0
    /\ cop # "setconc" => m_Counter <= m_ConcurrentThreads

\* A thread blocked in m_CriticalSection.Enter() / m_CounterCriticalSection.Enter().
WaitsForCS(x) ==
    \/ x \in ThreadObjs /\ wpc[x] \in {"L76", "L156"}
    \/ x = Sub /\ spc \in {"L195", "L217"}
    \/ x = Ctl /\ cpc = "L252"
WaitsForCounterCS(x) ==
    \/ x \in ThreadObjs /\ wpc[x] \in {"L61", "L80", "L90", "L165"}
    \/ x = Ctl /\ cpc \in {"L288", "L310"} /\ fi <= Len(m_Threads)
Threads == ThreadObjs \cup {Sub, Ctl}

MutatesThreads == m_Threads' # m_Threads
\* A RunThreads pass is between Enter() and Leave() (lines 195-203).
RunThreadsIterating == spc = "L197"

\* C18: m_Threads is changed only by steps of AllocThreads and FreeThreads,
\* never by a worker, and never while a RunThreads pass is iterating over it.
C18_ThreadSetNotMutatedUnderIteration ==
    [][MutatesThreads =>
         /\ cpc \in {"L276", "L302"}
         /\ wpc' = wpc \/ \E w \in ThreadObjs : wpc[w] = "unalloc" /\ wpc'[w] = "new"
         /\ ~RunThreadsIterating]_vars

\* C19: every cbEVT_THREADTASK_ALLDONE in the owner's event sequence comes
\* right after a cbEVT_THREADTASK_ENDED; it is posted only with the queue
\* empty and m_Counter zero, and sets m_Done; and m_Done becomes true only
\* with such a post.
C19_AllDoneFollowsEnded ==
    /\ [](\A i \in 1..Len(events) :
              events[i] = "ALLDONE" => (i > 1 /\ events[i - 1] = "ENDED"))
    /\ [][PostsAllDone =>
              (m_TaskQueue = << >> /\ m_Counter = 0 /\ m_Done')]_vars
    /\ [][(~m_Done /\ m_Done') => PostsAllDone]_vars
C19_Witness ==
    /\ Len(events) >= 3
    /\ events[Len(events)] = "ALLDONE"
    /\ events[Len(events) - 1] = "ENDED"
    /\ m_Done

\* Number of cbEVT_THREADTASK_ENDED events posted so far.
EndedCount == Len(SelectSeq(events, LAMBDA e : e = "ENDED"))
\* Number of Execute() calls that have returned, over the tasks in S.
RECURSIVE ReturnedCount(_)
ReturnedCount(S) ==
    IF S = {} THEN 0
    ELSE LET t == CHOOSE u \in S : TRUE
         IN  task[t].returned + ReturnedCount(S \ {t})

\* C20: there are never more "task ended" events than Execute() calls that
\* have returned, nor more than entries taken from the queue.
C20_EndedOnlyAfterExecute ==
    /\ EndedCount <= ReturnedCount(Tasks)
    /\ EndedCount <= Len(deqLog)

\* Entry()'s loop has ended: the worker is about to return, or has returned.
Terminated(w) == wpc[w] \in {"L103", "exited"}
\* RunThreads calls Run() on thread w (line 201) and the thread starts.
StartedByRunThreads(w) ==
    /\ RunThreadsIterating
    /\ ri <= Len(m_Threads) /\ m_Threads[ri] = w
    /\ ri' = ri + 1
    /\ wpc'[w] = "L59"

Orphaned(cs) == cs \in ThreadObjs /\ wpc[cs] = "killed"
\* Ctl is in an Enter() that never returns: ClearTaskQueue's (line 261), or
\* the one of the thread->Abort() of FreeThreads' first loop (lines 291, 49).
BlockedForEver ==
    \/ cpc \in {"L252", "L131"} /\ Orphaned(m_CriticalSection)
    \/ cpc = "L288" /\ fi <= Len(m_Threads) /\ Orphaned(m_CounterCriticalSection)
\* FreeThreads kills a thread (line 321).
Kills(w) == wpc[w] # "killed" /\ wpc'[w] = "killed"

\* C22: FreeThreads signals a worker it waits for at most MaxAbortRetries + 1
\* times, and kills it only after more than MaxAbortRetries retries; and
\* AbortAllTasks and the destructor are never in a wait that cannot end.
C22_TeardownBounded ==
    /\ [](count <= MaxAbortRetries + 1)
    /\ [][\A w \in ThreadObjs :
              Kills(w) => (count > MaxAbortRetries /\ m_Threads[fi] = w)]_vars
    /\ [](~BlockedForEver)

\* AddTask returns false (line 212).
RejectsTask ==
    \E t \in Tasks : task[t].submitted = "no" /\ task'[t].submitted = "rejected"
\* AddTask leaves its critical section (lines 217-220).
AcceptsTask == spc = "L217" /\ spc' # "L217"

\* C23: a rejected AddTask changes nothing of the pool (queue, m_Done,
\* m_Batching, m_Aborting, m_Counter, worker set) and starts no worker; an
\* accepted AddTask appends exactly its entry at the tail of the queue, sets
\* m_Done to false, and is the call that returns true.
C23_RejectedAddTaskChangesNothing ==
    /\ [][RejectsTask =>
              (m_Aborting /\ poolVars' = poolVars /\ wpc' = wpc /\ spc' = "idle")]_vars
    /\ [][AcceptsTask =>
              /\ m_TaskQueue' = Append(m_TaskQueue,
                                       cbTaskElement(sTask, task[sTask].autoDelete))
              /\ ~m_Done'
              /\ task'[sTask].submitted = "accepted"]_vars
C23_Witness ==
    \E t, u \in Tasks :
        /\ task[t].submitted = "rejected"
        /\ Accepted(u) /\ Len(m_TaskQueue) = 1 /\ m_TaskQueue[1].task = u

\* C24: SetConcurrentThreads(c) sets the worker count to c when c is an
\* explicit count, to the CPU count when c is -1, and to 1 when that is
\* unknown (-1) too, so at least 1 for "auto"; the count stays as set until
\* the call returns, and then m_Threads holds exactly that many workers.
C24_ConcurrencyResolved ==
    /\ [][\A c \in ConcurrencyArgs, cpus \in CPUCounts :
              SetConcurrentThreads(c, cpus) =>
                  /\ m_ConcurrentThreads' =
                         IF c # AutoConcurrency THEN c
                         ELSE IF cpus # AutoConcurrency THEN cpus ELSE 1
                  /\ c = AutoConcurrency => m_ConcurrentThreads' >= 1]_vars
    /\ [][cop = "setconc" => m_ConcurrentThreads' = m_ConcurrentThreads]_vars
    /\ [][SetConcurrentThreadsReturns =>
              /\ Len(m_Threads') = m_ConcurrentThreads'
              /\ Cardinality(Members(m_Threads')) = m_ConcurrentThreads']_vars
C24_Witness ==
    /\ cop = "setconc" /\ cpc = "L276"
    /\ fi = m_ConcurrentThreads
    /\ Len(m_Threads) = m_ConcurrentThreads
    /\ Len(oldThreads) # m_ConcurrentThreads

\* C25: whenever m_Done is true and the queue lock is free, the queue is
\* empty; m_Done becomes true only in a step of a worker that holds the queue
\* lock and with the queue empty, and a step that appends to the queue leaves
\* m_Done false.
C25_DoneImpliesQueueEmpty ==
    /\ []((m_Done /\ IsFree(m_CriticalSection)) => m_TaskQueue = << >>)
    /\ [][(~m_Done /\ m_Done') =>
              /\ m_CriticalSection \in ThreadObjs
              /\ m_TaskQueue = << >> /\ m_TaskQueue' = << >>]_vars
    /\ [][Len(m_TaskQueue') > Len(m_TaskQueue) => ~m_Done']_vars
C25_Witness ==
    /\ m_Done /\ IsFree(m_CriticalSection)
    /\ deqLog # << >>
    /\ \E t \in Tasks : task[t].returned = 1
    /\ m_TaskQueue = << >>

\* PrivateThread::Abort() calls the task's Abort() (line 51).
ForwardsAbortTo(t) == ~task[t].aborted /\ task'[t].aborted

\* C26: whenever the counter lock is free (so that PrivateThread::Abort can
\* enter), no worker's m_pTask refers to a task the pool has destroyed; and
\* the step in which Abort() is forwarded to a task finds the lock free and
\* the task not destroyed.
C26_NoAbortOfDestroyedTask ==
    /\ [](IsFree(m_CounterCriticalSection) =>
              \A w \in ThreadObjs :
                  m_pTask[w] # NoTask => task[m_pTask[w]].destroyed = 0)
    /\ [][\A t \in Tasks : ForwardsAbortTo(t) =>
              /\ IsFree(m_CounterCriticalSection)
              /\ task[t].destroyed = 0
              /\ \E w \in ThreadObjs : m_pTask[w] = t]_vars
C26_Witness ==
    \E t \in Tasks :
        task[t].aborted /\ task[t].autoDelete /\ task[t].destroyed = 1

\* C27: when AbortAllTasks returns, the busy counter is zero (so that the
\* tasks submitted afterwards can lead to an "all done" event again).
C27_CounterZeroAfterAbort ==
    [][AbortAllTasksReturns => m_Counter' = 0]_vars

\* C28: a killed worker holds neither the queue lock nor the counter lock.
C28_KilledWorkerHoldsNoLock ==
    /\ ~Orphaned(m_CriticalSection)
    /\ ~Orphaned(m_CounterCriticalSection)

=============================================================================
